---- MODULE Spec2Model ----
(***************************************************************************)
(* Article generation service (file_gen): the POST /api/v1/html/generate   *)
(* pipeline (validation, body acquisition, template wrapping, object-store *)
(* upload, metadata insert, commit, response), the GET /api/v1/html/{id}   *)
(* lookup, the exception-to-HTTP mapping, the startup hook with            *)
(* ensure_bucket, and delete_file.                                         *)
(*                                                                         *)
(* Representation.  A Python str is a sequence of one-character strings    *)
(* (<<"<", "p", ">">>); Python None in a str-typed field is the            *)
(* distinguished value None, which is no text.  An Optional[int] is <<>>   *)
(* (None) or <<n>>.  An f-string is the tuple of its parts.  Russian       *)
(* message literals are transliterated to ASCII.                           *)
(***************************************************************************)
EXTENDS Integers, Sequences, FiniteSets, TLC

\* ------------------------------------------------------------------ bounds

\* Number of HTTP requests (each served once, all possibly concurrent).
NumReqs == 2
\* Number of times the process is started.
MaxStartups == 2
MaxPieces == 5

\* ------------------------------------------------------------------- text

None == <<"None">>
NL == "\n"
\* The backtick character (a TLA+ string cannot hold one).
BT == "~"
Whitespace == {" ", NL, "\t"}

\* Python truthiness of an Optional[str]: None and "" are falsy.
Truthy(s) == s /= None /\ s /= <<>>

\* str.lower() on one character (the letters the fence pattern reads).
LowerChar(c) ==
  CASE c = "H" -> "h"
    [] c = "T" -> "t"
    [] c = "M" -> "m"
    [] c = "L" -> "l"
    [] OTHER -> c

\* Whether pattern pat occurs in s at position i (re.IGNORECASE when ci).
MatchAt(s, i, pat, ci) ==
  /\ i + Len(pat) - 1 <= Len(s)
  /\ \A k \in 1..Len(pat) :
       (IF ci THEN LowerChar(s[i + k - 1]) ELSE s[i + k - 1]) = pat[k]

\* The first position at or after i that holds no whitespace (\s* is greedy,
\* so the trailing \n? of the fence patterns never has anything left to take).
RECURSIVE SkipSpace(_, _)
SkipSpace(s, i) ==
  IF i <= Len(s) /\ s[i] \in Whitespace THEN SkipSpace(s, i + 1) ELSE i

\* re.sub(pat + r"\s*\n?", "", s): leftmost non-overlapping matches removed.
RECURSIVE SubFence(_, _, _, _)
SubFence(s, i, pat, ci) ==
  IF i > Len(s) THEN <<>>
  ELSE IF MatchAt(s, i, pat, ci)
       THEN SubFence(s, SkipSpace(s, i + Len(pat)), pat, ci)
       ELSE <<s[i]>> \o SubFence(s, i + 1, pat, ci)

\* str.strip(): leading and trailing whitespace removed.
RECURSIVE LStrip(_)
LStrip(s) ==
  IF s /= <<>> /\ Head(s) \in Whitespace THEN LStrip(Tail(s)) ELSE s

RECURSIVE RStrip(_)
RStrip(s) ==
  IF s /= <<>> /\ s[Len(s)] \in Whitespace
  THEN RStrip(SubSeq(s, 1, Len(s) - 1)) ELSE s

Strip(s) == RStrip(LStrip(s))

\* str.split("\n"): the lines of s, at least one.
RECURSIVE SplitLines(_)
SplitLines(s) ==
  IF \E i \in 1..Len(s) : s[i] = NL
  THEN LET i == CHOOSE j \in 1..Len(s) :
                  s[j] = NL /\ \A k \in 1..(j - 1) : s[k] /= NL
       IN <<SubSeq(s, 1, i - 1)>> \o SplitLines(SubSeq(s, i + 1, Len(s)))
  ELSE <<s>>

\* "\n".join(lines)
RECURSIVE JoinLines(_)
JoinLines(lines) ==
  IF lines = <<>> THEN <<>>
  ELSE IF Len(lines) = 1 THEN lines[1]
  ELSE lines[1] \o <<NL>> \o JoinLines(Tail(lines))

\* Mutant: no leading line is discarded.
DropPreamble_KeepAll(lines, started) == lines

\* The preamble loop: lines are dropped until the first one that, stripped,
\* starts with "<"; from that line on every line is kept.
RECURSIVE DropPreamble(_, _)
DropPreamble(lines, started) ==
  IF lines = <<>> THEN <<>>
  ELSE LET line == Head(lines)
           stripped == Strip(line)
       IN IF ~started
          THEN IF stripped = <<>>
               THEN DropPreamble(Tail(lines), FALSE)
               ELSE IF Head(stripped) = "<" \/ started
                    THEN <<line>> \o DropPreamble(Tail(lines), TRUE)
                    ELSE DropPreamble(Tail(lines), FALSE)
          ELSE <<line>> \o DropPreamble(Tail(lines), TRUE)

\* The length of the run of "\n" that starts at position i.
RECURSIVE RunOfNewlines(_, _)
RunOfNewlines(s, i) ==
  IF i <= Len(s) /\ s[i] = NL THEN 1 + RunOfNewlines(s, i + 1) ELSE 0

\* Mutant: only runs of 4 or more newlines are collapsed.
RECURSIVE CollapseNewlines_FourOrMore(_, _)
CollapseNewlines_FourOrMore(s, i) ==
  IF i > Len(s) THEN <<>>
  ELSE LET n == RunOfNewlines(s, i)
       IN IF n >= 4 THEN <<NL, NL>> \o CollapseNewlines_FourOrMore(s, i + n)
          ELSE <<s[i]>> \o CollapseNewlines_FourOrMore(s, i + 1)

\* re.sub(r"\n{3,}", "\n\n", s)
RECURSIVE CollapseNewlines(_, _)
CollapseNewlines(s, i) ==
  IF i > Len(s) THEN <<>>
  ELSE LET n == RunOfNewlines(s, i)
       IN IF n >= 3 THEN <<NL, NL>> \o CollapseNewlines(s, i + n)
          ELSE <<s[i]>> \o CollapseNewlines(s, i + 1)

FenceHtml == <<BT, BT, BT, "h", "t", "m", "l">>
Fence == <<BT, BT, BT>>

\* GPTFormatterService._clean_gpt_artifacts
clean_gpt_artifacts(html) ==
  LET h1 == SubFence(html, 1, FenceHtml, TRUE)
      h2 == SubFence(h1, 1, Fence, FALSE)
      clean_lines == DropPreamble(SplitLines(h2), FALSE)
      h3 == JoinLines(clean_lines)
      h4 == CollapseNewlines(h3, 1)
  IN Strip(h4)

\* ------------------------------------------------------------- exceptions

\* AppException(message, code)
AppException(cls, message, code) ==
  [cls |-> cls, app |-> TRUE, code |-> code, message |-> message]

\* NotFoundError(resource, id); ArticleNotFoundError(article_id)
NotFoundError(cls, resource, id) ==
  AppException(cls, <<resource, " s ID ", id, " ne naiden">>, "NOT_FOUND")

ArticleNotFoundError(article_id) ==
  NotFoundError("ArticleNotFoundError", "Article", article_id)

\* ValidationError(message): defined by the application, raised nowhere.
ValidationError(message) ==
  AppException("ValidationError", message, "VALIDATION_ERROR")

\* ExternalServiceError(service, message)
ExternalServiceError(cls, service, message) ==
  AppException(cls, <<"Oshibka ", service, ": ">> \o message,
               "EXTERNAL_SERVICE_ERROR")

S3UploadError(message) == ExternalServiceError("S3UploadError", "S3/MinIO", message)

GPTFormattingError(message) ==
  ExternalServiceError("GPTFormattingError", "OpenAI GPT", message)

\* LimitExceededError(resource, limit): defined, raised nowhere.
LimitExceededError(resource, limit) ==
  AppException("LimitExceededError",
               <<"Prevyshen limit ", resource, ": ", limit>>, "LIMIT_EXCEEDED")

\* An exception that is no AppException (pydantic's, SQLAlchemy's).
ForeignException(cls, message) ==
  [cls |-> cls, app |-> FALSE, code |-> "", message |-> message]

\* ------------------------------------------------------- exception handlers

\* Mutant: EXTERNAL_SERVICE_ERROR is missing from status_codes.
StatusFor_NoExternal(code) ==
  CASE code = "NOT_FOUND" -> 404
    [] code = "VALIDATION_ERROR" -> 400
    [] code = "LIMIT_EXCEEDED" -> 429
    [] OTHER -> 500

\* status_codes.get(code, 500)
StatusFor(code) ==
  CASE code = "NOT_FOUND" -> 404
    [] code = "VALIDATION_ERROR" -> 400
    [] code = "LIMIT_EXCEEDED" -> 429
    [] code = "EXTERNAL_SERVICE_ERROR" -> 502
    [] OTHER -> 500

\* app_exception_handler(request, exc)
app_exception_handler(exc) ==
  [status |-> StatusFor(exc.code),
   body |-> [error |-> [code |-> exc.code, message |-> exc.message]]]

\* What the application answers when exc leaves a path operation or the
\* request parsing: register_exception_handlers registers a handler for
\* AppException only, so a RequestValidationError gets the framework's 422
\* and any other exception the framework's plain 500.
ResponseFor(exc) ==
  IF exc.app THEN app_exception_handler(exc)
  ELSE IF exc.cls = "RequestValidationError"
       THEN [status |-> 422, body |-> [detail |-> exc.message]]
       ELSE [status |-> 500, body |-> [text |-> "Internal Server Error"]]

\* -------------------------------------------------------------- validation

ArticleTypeEnum == {"vacancy", "assessment", "email", "test_results", "custom"}
ContentModeEnum == {"formatted", "raw"}
FORMATTED == "formatted"
RAW == "raw"
FormatTypeEnum_HTML == "html"

\* Mutant: the validator tests "is None", so an empty string passes.
validate_content_fields_NoneOnly(self) ==
  IF self.content_mode = FORMATTED THEN self.html_content = None
  ELSE IF self.content_mode = RAW THEN self.raw_text = None
  ELSE FALSE

\* Mutant: the validator tests the field of the other mode.
validate_content_fields_Swapped(self) ==
  IF self.content_mode = FORMATTED THEN ~Truthy(self.raw_text)
  ELSE IF self.content_mode = RAW THEN ~Truthy(self.html_content)
  ELSE FALSE

\* HtmlGenerateSchema.validate_content_fields: TRUE when it raises ValueError.
validate_content_fields(self) ==
  IF self.content_mode = FORMATTED THEN ~Truthy(self.html_content)
  ELSE IF self.content_mode = RAW THEN ~Truthy(self.raw_text)
  ELSE FALSE

\* The field declarations of HtmlGenerateSchema: TRUE when a field of the
\* request body is rejected (an enum value out of range, title missing).
FieldErrors(body) ==
  \/ body.article_type \notin ArticleTypeEnum
  \/ body.content_mode \notin ContentModeEnum
  \/ body.title = None

\* The instance pydantic builds from a body: lang defaults to "ru".
HtmlGenerateSchema(body) ==
  [body EXCEPT !.lang = IF body.lang = None THEN <<"r", "u">> ELSE body.lang]

\* Whether building HtmlGenerateSchema from the body succeeds.
SchemaOk(body) ==
  ~FieldErrors(body) /\ ~validate_content_fields(HtmlGenerateSchema(body))

\* ---------------------------------------------------------------- services

DEFAULT_SYSTEM_PROMPT == <<"D">>
\* "\n\nOtvechai na angliiskom yazyke."
EnglishSuffix == <<NL, NL, "E">>

\* Mutant: the English sentence is appended for every lang.
SystemPrompt_AlwaysEnglish(formatting_rules, lang) ==
  (IF Truthy(formatting_rules) THEN formatting_rules
   ELSE DEFAULT_SYSTEM_PROMPT) \o EnglishSuffix

\* GPTFormatterService.format_text: the system prompt it builds.
SystemPrompt(formatting_rules, lang) ==
  LET system_prompt ==
        IF Truthy(formatting_rules) THEN formatting_rules
        ELSE DEFAULT_SYSTEM_PROMPT
  IN IF lang = <<"e", "n">> THEN system_prompt \o EnglishSuffix
     ELSE system_prompt

\* GPTFormatterService.format_text: the messages of the completion call.
Messages(raw_text, formatting_rules, lang) ==
  <<[role |-> "system", content |-> SystemPrompt(formatting_rules, lang)],
    [role |-> "user", content |-> raw_text]>>

\* Mutant: the template does not render body_content.
wrap_in_template_NoBody(title, body_content, lang) ==
  [template |-> "base.html", title |-> title,
   body_content |-> <<>>, lang |-> lang]

\* ArticleService._wrap_in_template: base.html rendered with these three
\* values (autoescape off); the document is a function of them alone.
wrap_in_template(title, body_content, lang) ==
  [template |-> "base.html", title |-> title,
   body_content |-> body_content, lang |-> lang]

\* str.encode("utf-8")
EncodeUtf8(text) == [encoding |-> "utf-8", text |-> text]

\* Mutant: the key is built from a fixed name in place of file_id.
S3Key_FixedToken(article_type, file_id) ==
  <<"html", "/", article_type, "/", 1, ".html">>

\* Mutant: the key names a fixed article type.
S3Key_FixedType(article_type, file_id) ==
  <<"html", "/", "custom", "/", file_id, ".html">>

\* f"html/{data.article_type.value}/{file_id}.html"
S3Key(article_type, file_id) ==
  <<"html", "/", article_type, "/", file_id, ".html">>

\* str.rstrip("/")
RECURSIVE RStripSlash(_)
RStripSlash(s) ==
  IF s /= <<>> /\ s[Len(s)] = "/"
  THEN RStripSlash(SubSeq(s, 1, Len(s) - 1)) ELSE s

\* Mutant: S3_PUBLIC_URL is not consulted.
get_public_url_EndpointOnly(cfg, s3_key) ==
  RStripSlash(cfg.S3_ENDPOINT) \o <<"/", cfg.S3_BUCKET_NAME, "/">> \o s3_key

\* S3StorageService.get_public_url
get_public_url(cfg, s3_key) ==
  IF cfg.S3_PUBLIC_URL /= <<>>
  THEN RStripSlash(cfg.S3_PUBLIC_URL) \o <<"/">> \o s3_key
  ELSE RStripSlash(cfg.S3_ENDPOINT) \o <<"/", cfg.S3_BUCKET_NAME, "/">> \o s3_key

\* ArticleResponseSchema(id=..., public_url=..., ...) built from a row.
ArticleResponseSchema(article) ==
  [id |-> article.id, public_url |-> article.public_url,
   article_type |-> article.article_type,
   format_type |-> article.format_type,
   created_at |-> article.created_at]

\* ------------------------------------------------------------------ inputs

Reqs == 1..NumReqs
\* The values uuid.uuid4().hex draws from: one for each request.
Tokens == 1..NumReqs

ArticleTypeInputs == {"vacancy", "email", "bogus"}
ContentModeInputs == {FORMATTED, RAW, "bogus"}
HtmlInputs == {None, <<>>, <<"<", "p", ">">>}
RawInputs == {None, <<>>, <<"h", "i">>}
RulesInputs == {None, <<>>, <<"R">>}
TitleInputs == {None, <<"T">>, <<"U">>}
LangInputs == {None, <<"e", "n">>, <<"E", "N">>}
SourceIdInputs == {<<>>, <<7>>}

\* Every request body of POST /api/v1/html/generate over these values.
AllBodies ==
  [article_type : ArticleTypeInputs, content_mode : ContentModeInputs,
   html_content : HtmlInputs, raw_text : RawInputs,
   formatting_rules : RulesInputs, title : TitleInputs,
   lang : LangInputs, source_entity_id : SourceIdInputs]

\* The bodies the concurrent specification draws from: a formatted body,
\* one whose html_content is empty, a raw body of another article type, and
\* a formatted body with another title, lang and source_entity_id.
Bodies ==
  {b \in AllBodies :
     /\ b.formatting_rules = None
     /\ b.article_type \in ArticleTypeEnum
     /\ \/ /\ b.title = <<"T">> /\ b.source_entity_id = <<>> /\ b.lang = None
           /\ \/ b.content_mode = FORMATTED /\ b.raw_text = None
                 /\ Truthy(b.html_content) /\ b.article_type = "email"
              \/ b.content_mode = FORMATTED /\ b.raw_text = None
                 /\ b.html_content = <<>> /\ b.article_type = "vacancy"
              \/ b.content_mode = RAW /\ b.html_content = None
                 /\ Truthy(b.raw_text) /\ b.article_type = "vacancy"
        \/ /\ b.title = <<"U">> /\ b.source_entity_id = <<7>>
           /\ b.lang = <<"e", "n">> /\ b.article_type = "email"
           /\ b.content_mode = FORMATTED /\ b.raw_text = None
           /\ Truthy(b.html_content)}

\* The texts of the exceptions a collaborator raises.
ExcTexts == {"timeout", "refused"}

\* What the completion call does: raise, or return a message content
\* (None: a null content).
AllLLMOutcomes ==
  {[raise |-> TRUE, exc |-> e, content |-> None] : e \in ExcTexts}
  \cup {[raise |-> FALSE, exc |-> "", content |-> c] :
          c \in {None, <<>>, <<" ", NL>>, <<"h", "i">>, <<BT, BT, BT, NL>>,
                 <<"<", "p", ">">>,
                 <<"H", ":", NL, BT, BT, BT, "h", "t", "m", "l", NL,
                   "<", "p", ">", NL, BT, BT, BT>>}}

LLMOutcomes ==
  {o \in AllLLMOutcomes :
     \/ o.raise
     \/ ~o.raise /\ o.content \in {None, <<"<", "p", ">">>}}

\* The pieces the model responses of the cleaning specification are made
\* of: a bare fence, an html fence in mixed case, a single backtick, one and
\* two newlines, a space, a tag and a letter.
Pieces ==
  {<<BT, BT, BT>>, <<BT, BT, BT, "H", "t", "m", "l">>, <<BT>>, <<NL>>,
   <<NL, NL>>, <<" ">>, <<"<", "p", ">">>, <<"x">>}

RECURSIVE Concat(_)
Concat(ps) == IF ps = <<>> THEN <<>> ELSE Head(ps) \o Concat(Tail(ps))

\* "Here is your HTML:" followed by an html fence around <p>hi</p>.
PreambleResponse ==
  <<"H", "e", "r", "e", " ", "i", "s", " ", "y", "o", "u", "r", " ",
    "H", "T", "M", "L", ":", NL,
    BT, BT, BT, "h", "t", "m", "l", NL,
    "<", "p", ">", "h", "i", "<", "/", "p", ">", NL,
    BT, BT, BT>>

\* response.choices[0].message.content: every text of at most MaxPieces
\* pieces, and the response with a preamble sentence.
CleanInputs ==
  {Concat(ps) : ps \in UNION {[1..n -> Pieces] : n \in 0..MaxPieces}}
  \cup {PreambleResponse}

CleanOutcomes ==
  {[raise |-> FALSE, exc |-> "", content |-> c] : c \in CleanInputs}

\* The process configuration (core/config.py), fixed when the process starts.
AllConfigs ==
  [S3_PUBLIC_URL : {<<>>, <<"c", "d", "n", "/">>},
   S3_ENDPOINT : {<<"m", "i", "n", "i", "o">>},
   S3_BUCKET_NAME : {"hr-articles"}]

\* The configuration with the defaults of core/config.py (no S3_PUBLIC_URL).
DefaultConfigs == {c \in AllConfigs : c.S3_PUBLIC_URL = <<>>}

\* ------------------------------------------------------------------- state

VARIABLES
  configs,  \* the process's Configs
  pc,       \* each request's position
  req,      \* each request as received
  loc,      \* generate_html's local variables, per request
  trace,    \* the steps each request has executed, in order
  llm,      \* the messages of each request's completion calls
  raised,   \* the exception that ended each request, if any
  resp,     \* the HTTP response each request was answered with
  sess,     \* each request's database session
  store,    \* the bucket: key -> object
  db,       \* the committed rows of article.articles
  nextId,   \* the next value of the id sequence
  clock,    \* datetime.utcnow(), as a logical clock
  proc,     \* the process: "starting", "serving" or "failed"
  bucket,   \* whether the bucket exists, and its policy
  ensure,   \* the process's ensure_bucket call: the client calls it issued
  deleted   \* the last delete_file call and what it returned

vars == <<configs, pc, req, loc, trace, llm, raised, resp, sess, store, db,
          nextId, clock, proc, bucket, ensure, deleted>>

NoReq == [kind |-> "none"]
NoRow == [id |-> 0]
NoExc == [cls |-> "none", app |-> FALSE, code |-> "", message |-> <<>>]
NoResp == [status |-> 0, body |-> [none |-> TRUE]]
NoLoc == [html_body |-> None, full_html |-> None, s3_key |-> <<>>,
          public_url |-> <<>>, article |-> NoRow]
\* The empty bucket.
NoObjects == [k \in {} |-> NoRow]
NoPolicy == [Effect |-> "none"]
NoEnsure == [runs |-> 0, existed |-> FALSE, calls |-> <<>>, raised |-> FALSE]
NoDelete == [key |-> <<>>, outcome |-> "none"]

\* The policy ensure_bucket puts on the bucket.
PublicReadPolicy(bucket_name) ==
  [Effect |-> "Allow", Principal |-> "*", Action |-> "s3:GetObject",
   Resource |-> <<"arn:aws:s3:::", bucket_name, "/*">>]

\* The bucket as a process may find it when it starts: absent, present
\* without a policy, or present with the public-read policy.
AllBuckets ==
  {[exists |-> FALSE, policy |-> NoPolicy],
   [exists |-> TRUE, policy |-> NoPolicy],
   [exists |-> TRUE, policy |-> PublicReadPolicy("hr-articles")]}

\* A first deployment: the bucket does not exist yet.
AbsentBucket == {b \in AllBuckets : ~b.exists}

InitWith(cfgs, buckets) ==
  /\ configs \in cfgs
  /\ proc = "starting"
  /\ bucket \in buckets
  /\ ensure = NoEnsure
  /\ deleted = NoDelete
  /\ pc = [r \in Reqs |-> "idle"]
  /\ req = [r \in Reqs |-> NoReq]
  /\ loc = [r \in Reqs |-> NoLoc]
  /\ trace = [r \in Reqs |-> <<>>]
  /\ llm = [r \in Reqs |-> <<>>]
  /\ raised = [r \in Reqs |-> NoExc]
  /\ resp = [r \in Reqs |-> NoResp]
  /\ sess = [r \in Reqs |-> "none"]
  /\ store = NoObjects
  /\ db = {}
  /\ nextId = 1
  /\ clock = 1

\* ----------------------------------------------------------------- actions

Data(r) == HtmlGenerateSchema(req[r].body)

\* What the client calls of ensure_bucket do: head_bucket returns, raises
\* ClientError (an error response of the store: 404 for an absent bucket,
\* but also 403 or 5xx) or raises another exception (no connection);
\* create_bucket and put_bucket_policy return or raise.
AllEnsureOutcomes ==
  [head : {"ok", "ClientError", "Exception"}, create : {"ok", "raise"},
   policy : {"ok", "raise"}]

\* head_bucket cannot succeed on a bucket that does not exist.
EnsureOutcomes(b) == {o \in AllEnsureOutcomes : o.head = "ok" => b.exists}

\* S3StorageService.ensure_bucket on bucket b: the bucket afterwards, the
\* client calls issued, and whether an exception left the method.
ensure_bucket(b, bucket_name, o) ==
  IF o.head = "ok"
  THEN [bucket |-> b, calls |-> <<"head_bucket">>, raised |-> FALSE]
  ELSE IF o.head = "Exception"
  THEN [bucket |-> b, calls |-> <<"head_bucket">>, raised |-> TRUE]
  ELSE IF o.create = "raise"
  THEN [bucket |-> b, calls |-> <<"head_bucket", "create_bucket">>,
        raised |-> TRUE]
  ELSE LET created == [b EXCEPT !.exists = TRUE]
           calls == <<"head_bucket", "create_bucket", "put_bucket_policy">>
       IN IF o.policy = "raise"
          THEN [bucket |-> created, calls |-> calls, raised |-> TRUE]
          ELSE [bucket |-> [created EXCEPT
                              !.policy = PublicReadPolicy(bucket_name)],
                calls |-> calls, raised |-> FALSE]

\* Mutant: the startup hook catches the exception and the process serves.
StartupResult_Swallowed(ensure_raised) == "serving"

\* startup_event: an exception of ensure_bucket leaves the hook and the
\* application does not start.
StartupResult(ensure_raised) == IF ensure_raised THEN "failed" ELSE "serving"

\* The process starts: startup_event awaits ensure_bucket.
Startup(o) ==
  /\ proc = "starting"
  /\ LET e == ensure_bucket(bucket, configs.S3_BUCKET_NAME, o)
     IN /\ bucket' = e.bucket
        /\ ensure' = [runs |-> ensure.runs + 1, existed |-> bucket.exists,
                      calls |-> e.calls, raised |-> e.raised]
        /\ proc' = StartupResult(e.raised)
  /\ UNCHANGED <<configs, pc, req, loc, trace, llm, raised, resp, sess, store,
                 db, nextId, clock, deleted>>

\* The process is started again (by its supervisor, or by an operator) while
\* no request is in flight.
Restart ==
  /\ proc \in {"serving", "failed"}
  /\ ensure.runs < MaxStartups
  /\ \A r \in DOMAIN pc : pc[r] \in {"idle", "done"}
  /\ proc' = "starting"
  /\ UNCHANGED <<configs, pc, req, loc, trace, llm, raised, resp, sess, store,
                 db, nextId, clock, bucket, ensure, deleted>>

\* What delete_file's calls do: delete_object returns, create_client raises,
\* or delete_object raises.
DeleteOutcomes == {"ok", "client_raises", "delete_raises"}

\* Mutant: the except clause raises the exception again.
delete_file_Reraises(o) ==
  IF o = "ok" THEN [kind |-> "return", value |-> TRUE]
  ELSE [kind |-> "raise", value |-> FALSE]

\* S3StorageService.delete_file: how the call ends.
delete_file(o) == [kind |-> "return", value |-> o = "ok"]

\* A cleanup flow outside the generation calls delete_file(s3_key).
DeleteFile(s3_key, o) ==
  /\ proc = "serving"
  /\ deleted' = [key |-> s3_key, outcome |-> o, result |-> delete_file(o)]
  /\ store' = IF o = "ok"
              THEN [k \in DOMAIN store \ {s3_key} |-> store[k]]
              ELSE store
  /\ UNCHANGED <<configs, pc, req, loc, trace, llm, raised, resp, sess, db,
                 nextId, clock, proc, bucket, ensure>>

\* An exception leaves the path operation: get_session rolls the session
\* back and re-raises, and the application answers with ResponseFor(exc).
Fail(r, exc) ==
  /\ pc' = [pc EXCEPT ![r] = "done"]
  /\ raised' = [raised EXCEPT ![r] = exc]
  /\ resp' = [resp EXCEPT ![r] = ResponseFor(exc)]
  /\ sess' = [sess EXCEPT ![r] = "rolledback"]

\* The path operation goes on to its next await.
Goto(r, label) ==
  /\ pc' = [pc EXCEPT ![r] = label]
  /\ UNCHANGED <<raised, resp, sess>>

\* POST /api/v1/html/generate arrives: the body is parsed into
\* HtmlGenerateSchema; a body that fails never reaches generate_html_article.
ReceivePost(r, body) ==
  /\ proc = "serving"
  /\ pc[r] = "idle"
  /\ req' = [req EXCEPT ![r] = [kind |-> "post", body |-> body]]
  /\ IF SchemaOk(body)
     THEN /\ pc' = [pc EXCEPT ![r] = "acquire"]
          /\ sess' = [sess EXCEPT ![r] = "active"]
          /\ UNCHANGED <<raised, resp>>
     ELSE LET exc == ForeignException("RequestValidationError",
                                      <<"invalid body">>)
          IN /\ pc' = [pc EXCEPT ![r] = "done"]
             /\ raised' = [raised EXCEPT ![r] = exc]
             /\ resp' = [resp EXCEPT ![r] = ResponseFor(exc)]
             /\ UNCHANGED sess
  /\ UNCHANGED <<proc, bucket, ensure, deleted>>
  /\ UNCHANGED <<configs, loc, trace, llm, store, db, nextId, clock>>

\* GET /api/v1/html/{article_id} arrives.
ReceiveGet(r, article_id) ==
  /\ proc = "serving"
  /\ pc[r] = "idle"
  /\ req' = [req EXCEPT ![r] = [kind |-> "get", article_id |-> article_id]]
  /\ pc' = [pc EXCEPT ![r] = "lookup"]
  /\ sess' = [sess EXCEPT ![r] = "active"]
  /\ UNCHANGED <<proc, bucket, ensure, deleted>>
  /\ UNCHANGED <<configs, loc, trace, llm, raised, resp, store, db, nextId,
                 clock>>

\* generate_html step 1, content_mode = formatted: html_body = html_content.
PassThrough(r) ==
  /\ pc[r] = "acquire"
  /\ Data(r).content_mode = FORMATTED
  /\ loc' = [loc EXCEPT ![r].html_body = Data(r).html_content]
  /\ trace' = [trace EXCEPT ![r] = @ \o <<"body">>]
  /\ Goto(r, "upload")
  /\ UNCHANGED <<proc, bucket, ensure, deleted>>
  /\ UNCHANGED <<configs, req, llm, store, db, nextId, clock>>

\* response.choices[0].message.content or ""
ContentOrEmpty(content) == IF Truthy(content) THEN content ELSE <<>>

\* Mutant: the emptiness check is missing.
EmptyContent_Never(html_content) == FALSE

\* if not html_content.strip(): raise GPTFormattingError
EmptyContent(html_content) == Strip(html_content) = <<>>

\* generate_html step 1, content_mode = raw: GPTFormatterService.format_text.
FormatText(r, o) ==
  /\ pc[r] = "acquire"
  /\ Data(r).content_mode /= FORMATTED
  /\ llm' = [llm EXCEPT ![r] =
               @ \o <<[messages |-> Messages(Data(r).raw_text,
                                             Data(r).formatting_rules,
                                             Data(r).lang),
                       outcome |-> o]>>]
  /\ IF o.raise
     THEN /\ trace' = [trace EXCEPT ![r] = @ \o <<"llm", "llm_raised">>]
          /\ Fail(r, GPTFormattingError(
                       <<"Ne udalos otformatirovat tekst: ", o.exc>>))
          /\ UNCHANGED loc
     ELSE LET html_content == clean_gpt_artifacts(ContentOrEmpty(o.content))
          IN IF EmptyContent(html_content)
             THEN /\ trace' = [trace EXCEPT ![r] = @ \o <<"llm", "llm_empty">>]
                  /\ Fail(r, GPTFormattingError(<<"GPT vernul pustoi kontent">>))
                  /\ UNCHANGED loc
             ELSE /\ trace' = [trace EXCEPT ![r] = @ \o <<"llm">>]
                  /\ loc' = [loc EXCEPT ![r].html_body = html_content]
                  /\ Goto(r, "upload")
  /\ UNCHANGED <<proc, bucket, ensure, deleted>>
  /\ UNCHANGED <<configs, req, store, db, nextId, clock>>

\* What put_object does: store the object, or raise (nothing is stored).
AllPutOutcomes ==
  {[raise |-> FALSE, exc |-> ""]} \cup {[raise |-> TRUE, exc |-> e] : e \in ExcTexts}

PutOutcomes == {o \in AllPutOutcomes : o.exc \in {"", "timeout"}}

\* Mutant: the object is not stored under the key.
PutObject_Lost(objects, key, content, content_type) == objects

\* The bucket after put_object(Key=key, Body=content, ContentType=ct).
PutObject(objects, key, content, content_type) ==
  [k \in DOMAIN objects \cup {key} |->
     IF k = key THEN [Body |-> content, ContentType |-> content_type]
     ELSE objects[k]]

\* Mutant: the except clause logs the error and returns, so generate_html
\* goes on to the metadata insert.
UploadFailed_Swallowed(r, s3_key, exc) == Goto(r, "create")

\* Mutant: the except clause retries the upload.
UploadFailed_Retry(r, s3_key, exc) == Goto(r, "upload")

\* upload_file's except clause: the exception is logged and S3UploadError
\* raised, which generate_html lets through.
UploadFailed(r, s3_key, exc) ==
  Fail(r, S3UploadError(<<"Ne udalos zagruzit fail '">> \o s3_key
                        \o <<"': ", exc>>))

\* uuid.uuid4().hex: a value that no earlier call returned (a version 4
\* UUID has 122 random bits; a repeated value is not modelled).
uuid4 ==
  Tokens \ {loc[q].s3_key[5] : q \in {q \in Reqs : loc[q].s3_key /= <<>>}}

\* generate_html steps 2 and 3: _wrap_in_template, the key, upload_file.
UploadFile(r, file_id, o) ==
  /\ pc[r] = "upload"
  /\ LET full_html == wrap_in_template(Data(r).title, loc[r].html_body,
                                       Data(r).lang)
         s3_key == S3Key(Data(r).article_type, file_id)
         html_bytes == EncodeUtf8(full_html)
     IN IF o.raise
        THEN /\ trace' = [trace EXCEPT ![r] = @ \o <<"wrap", "put", "put_raised">>]
             /\ loc' = [loc EXCEPT ![r].full_html = full_html,
                                   ![r].s3_key = s3_key]
             /\ UNCHANGED store
             /\ UploadFailed(r, s3_key, o.exc)
        ELSE /\ trace' = [trace EXCEPT ![r] = @ \o <<"wrap", "put">>]
             /\ store' = PutObject(store, s3_key, html_bytes,
                                   "text/html; charset=utf-8")
             /\ loc' = [loc EXCEPT ![r].full_html = full_html,
                                   ![r].s3_key = s3_key,
                                   ![r].public_url =
                                     get_public_url(configs, s3_key)]
             /\ Goto(r, "create")
  /\ UNCHANGED <<proc, bucket, ensure, deleted>>
  /\ UNCHANGED <<configs, req, llm, db, nextId, clock>>

\* The row BaseRepository.create builds, flushed and refreshed.
NewArticle(r) ==
  [id |-> nextId, title |-> Data(r).title,
   article_type |-> Data(r).article_type,
   content_mode |-> Data(r).content_mode,
   format_type |-> FormatTypeEnum_HTML,
   s3_key |-> loc[r].s3_key, public_url |-> loc[r].public_url,
   source_entity_id |-> Data(r).source_entity_id, lang |-> Data(r).lang,
   created_at |-> clock, updated_at |-> clock]

\* The row request r has flushed and not yet committed or rolled back.
Pending(r) == sess[r] = "active" /\ loc[r].article /= NoRow

CreateOutcomes == {"flush", "OperationalError"}

\* generate_html steps 4 and 5: ArticleRepository.create, then the response
\* schema is built and returned.  The unique index on s3_key makes the flush
\* wait for a concurrent transaction that has inserted the same key, and
\* fail once a committed row holds it.
Create(r, o) ==
  /\ pc[r] = "create"
  /\ IF o = "flush"
     THEN /\ ~\E q \in Reqs \ {r} :
                 Pending(q) /\ loc[q].article.s3_key = loc[r].s3_key
          /\ nextId' = nextId + 1
          /\ IF \E row \in db : row.s3_key = loc[r].s3_key
             THEN /\ trace' = [trace EXCEPT ![r] = @ \o <<"insert", "insert_raised">>]
                  /\ Fail(r, ForeignException("IntegrityError",
                                              <<"duplicate key">>))
                  /\ UNCHANGED <<loc, clock>>
             ELSE /\ trace' = [trace EXCEPT ![r] = @ \o <<"insert", "respond">>]
                  /\ loc' = [loc EXCEPT ![r].article = NewArticle(r)]
                  /\ clock' = clock + 1
                  /\ Goto(r, "commit")
     ELSE /\ trace' = [trace EXCEPT ![r] = @ \o <<"insert", "insert_raised">>]
          /\ Fail(r, ForeignException("OperationalError", <<"connection">>))
          /\ UNCHANGED <<loc, nextId, clock>>
  /\ UNCHANGED <<proc, bucket, ensure, deleted>>
  /\ UNCHANGED <<configs, req, llm, store, db>>

\* "ok": the commit succeeds.  Otherwise it raises and get_session rolls
\* back; depending on the framework version the dependency's exit code runs
\* before the response is sent (the client gets the 500) or after it (the
\* client already has the 200).
CommitOutcomes == {"ok", "fail_before_response", "fail_after_response"}

\* Mutant: the row survives a commit that raised.
RowsAfterCommit_KeepsRow(rows, article, o) == rows \cup {article}

\* The committed rows after get_session's commit of a session holding the
\* flushed article: the row is durable when the commit succeeds and gone
\* with the rollback when it raises.
RowsAfterCommit(rows, article, o) ==
  IF o = "ok" THEN rows \cup {article} ELSE rows

\* get_session after the path operation returned: session.commit().
Commit(r, o) ==
  /\ pc[r] = "commit"
  /\ LET exc == ForeignException("OperationalError", <<"connection">>)
         ok == [status |-> 200, body |-> ArticleResponseSchema(loc[r].article)]
     IN /\ db' = RowsAfterCommit(db, loc[r].article, o)
        /\ IF o = "ok"
           THEN /\ trace' = [trace EXCEPT ![r] = @ \o <<"commit">>]
                /\ sess' = [sess EXCEPT ![r] = "committed"]
                /\ resp' = [resp EXCEPT ![r] = ok]
                /\ UNCHANGED raised
           ELSE /\ trace' = [trace EXCEPT ![r] = @ \o <<"commit", "commit_raised">>]
                /\ sess' = [sess EXCEPT ![r] = "rolledback"]
                /\ raised' = [raised EXCEPT ![r] = exc]
                /\ resp' = [resp EXCEPT ![r] =
                              IF o = "fail_before_response"
                              THEN ResponseFor(exc) ELSE ok]
  /\ pc' = [pc EXCEPT ![r] = "done"]
  /\ UNCHANGED <<proc, bucket, ensure, deleted>>
  /\ UNCHANGED <<configs, req, loc, llm, store, nextId, clock>>

LookupOutcomes == {"select", "OperationalError"}

\* Mutant: the SELECT has no WHERE clause on the id.
get_by_id_AnyRow(rows, id) ==
  IF rows /= {} THEN CHOOSE row \in rows : TRUE ELSE NoRow

\* BaseRepository.get_by_id: the committed row with this id
\* (scalar_one_or_none), NoRow for None.
get_by_id(rows, id) ==
  IF \E row \in rows : row.id = id
  THEN CHOOSE row \in rows : row.id = id ELSE NoRow

\* get_html_article: get_article (BaseRepository.get_by_id reads the
\* committed rows), ArticleNotFoundError when there is none, the commit of
\* the read-only session.
GetArticle(r, o) ==
  /\ pc[r] = "lookup"
  /\ trace' = [trace EXCEPT ![r] =
                 @ \o (IF o = "select" THEN <<"select">>
                       ELSE <<"select", "select_raised">>)]
  /\ IF o = "select"
     THEN LET article == get_by_id(db, req[r].article_id)
          IN IF article /= NoRow
             THEN /\ pc' = [pc EXCEPT ![r] = "done"]
                  /\ resp' = [resp EXCEPT ![r] =
                                [status |-> 200,
                                 body |-> ArticleResponseSchema(article)]]
                  /\ sess' = [sess EXCEPT ![r] = "committed"]
                  /\ UNCHANGED raised
             ELSE Fail(r, ArticleNotFoundError(req[r].article_id))
     ELSE Fail(r, ForeignException("OperationalError", <<"connection">>))
  /\ UNCHANGED <<proc, bucket, ensure, deleted>>
  /\ UNCHANGED <<configs, req, loc, llm, store, db, nextId, clock>>

\* ---------------------------------------------------------- specifications

\* The ids a GET asks for.
ArticleIds == 1..NumReqs

\* Concurrent requests, each served once.
Next ==
  \/ \E o \in EnsureOutcomes(bucket) : Startup(o)
  \/ \E r \in Reqs :
    \/ \E body \in Bodies : ReceivePost(r, body)
    \/ \E id \in ArticleIds : ReceiveGet(r, id)
    \/ PassThrough(r)
    \/ \E o \in LLMOutcomes : FormatText(r, o)
    \/ \E file_id \in uuid4, o \in PutOutcomes : UploadFile(r, file_id, o)
    \/ \E o \in CreateOutcomes : Create(r, o)
    \/ \E o \in CommitOutcomes : Commit(r, o)
    \/ \E o \in LookupOutcomes : GetArticle(r, o)

Init == InitWith(DefaultConfigs, AbsentBucket)

Spec == Init /\ [][Next]_vars

\* One POST request, over every body, collaborator outcome and configuration.
NextOne ==
  \/ \E o \in EnsureOutcomes(bucket) : Startup(o)
  \/ \E body \in AllBodies : ReceivePost(1, body)
  \/ PassThrough(1)
  \/ \E o \in AllLLMOutcomes : FormatText(1, o)
  \/ \E file_id \in uuid4, o \in AllPutOutcomes : UploadFile(1, file_id, o)
  \/ \E o \in CreateOutcomes : Create(1, o)
  \/ \E o \in CommitOutcomes : Commit(1, o)

InitOne == InitWith(AllConfigs, AbsentBucket)

SpecOne == InitOne /\ [][NextOne]_vars

\* The cleaning specification: one raw-mode request whose completion call
\* returns any of CleanInputs.
RawBodies ==
  {b \in AllBodies :
     /\ b.content_mode = RAW /\ b.raw_text = <<"h", "i">>
     /\ b.html_content = None /\ b.article_type = "email"
     /\ b.title = <<"T">> /\ b.source_entity_id = <<>>
     /\ b.formatting_rules = None /\ b.lang = None}

NextClean ==
  \/ \E o \in EnsureOutcomes(bucket) : Startup(o)
  \/ \E body \in RawBodies : ReceivePost(1, body)
  \/ pc[1] = "acquire" /\ \E o \in CleanOutcomes : FormatText(1, o)

InitClean == InitWith(DefaultConfigs, AbsentBucket)

SpecClean == InitClean /\ [][NextClean]_vars

\* The keys a cleanup flow asks delete_file to remove.
DeleteKeys == {S3Key("vacancy", tok) : tok \in Tokens}

\* The storage service over the life of the deployment: startups and
\* restarts on a bucket in any condition, one generation or lookup, and
\* delete_file calls.
NextStorage ==
  \/ \E o \in EnsureOutcomes(bucket) : Startup(o)
  \/ Restart
  \/ \E k \in DeleteKeys, o \in DeleteOutcomes : DeleteFile(k, o)
  \/ \E body \in Bodies : ReceivePost(1, body)
  \/ \E id \in ArticleIds : ReceiveGet(1, id)
  \/ PassThrough(1)
  \/ \E o \in LLMOutcomes : FormatText(1, o)
  \/ \E file_id \in uuid4, o \in PutOutcomes : UploadFile(1, file_id, o)
  \/ \E o \in CreateOutcomes : Create(1, o)
  \/ \E o \in CommitOutcomes : Commit(1, o)
  \/ \E o \in LookupOutcomes : GetArticle(1, o)

InitStorage == InitWith(DefaultConfigs, AllBuckets)

SpecStorage == InitStorage /\ [][NextStorage]_vars

\* ------------------------------------------------------------------ claims

\* Whether request r has executed step ev.
Has(r, ev) == \E i \in 1..Len(trace[r]) : trace[r][i] = ev

\* Whether request r executed step a, and step b only after it.
Before(r, a, b) ==
  \E i \in 1..Len(trace[r]) :
    /\ trace[r][i] = a
    /\ \A j \in 1..Len(trace[r]) : trace[r][j] = b => i < j

IsPost(r) == req[r].kind = "post"

\* C1: when put_object raises for a request, generate_html ends with
\* S3UploadError, ArticleRepository.create is not called for that request,
\* and no row of that request exists, pending or committed.
C1_UploadFailureLeavesNoRecord ==
  \A r \in Reqs :
    Has(r, "put_raised") =>
      /\ pc[r] = "done"
      /\ raised[r].cls = "S3UploadError"
      /\ ~Has(r, "insert")
      /\ loc[r].article = NoRow
      /\ \A row \in db : \E q \in Reqs \ {r} : loc[q].article = row

\* A request whose upload raised has been answered while another request's
\* row is committed.
C1_Witness ==
  \E r \in Reqs :
    /\ Has(r, "put_raised") /\ pc[r] = "done" /\ resp[r] /= NoResp
    /\ db /= {}

\* C2: every row, pending or committed, was created by a request whose
\* upload of the row's s3_key had succeeded before the insert, and an object
\* is stored under that key.
C2_RecordOnlyAfterUpload ==
  /\ \A row \in db : \E r \in Reqs : loc[r].article = row
  /\ \A r \in Reqs :
       loc[r].article /= NoRow =>
         /\ loc[r].article.s3_key = loc[r].s3_key
         /\ loc[r].article.s3_key \in DOMAIN store
         /\ Before(r, "put", "insert")
         /\ ~Has(r, "put_raised")

\* A committed row, a finished lookup and a failed generation together.
C2_Witness ==
  \E r, q \in Reqs :
    /\ loc[r].article \in db
    /\ req[q].kind = "get" /\ pc[q] = "done"

\* The steps of generate_html and of get_session's commit, in order.
Pipeline(r) ==
  <<IF Data(r).content_mode = FORMATTED THEN "body" ELSE "llm",
    "wrap", "put", "insert", "respond", "commit">>

\* The ways a step fails.
FailuresOf(step) ==
  CASE step = "llm" -> {"llm_raised", "llm_empty"}
    [] step = "put" -> {"put_raised"}
    [] step = "insert" -> {"insert_raised"}
    [] step = "commit" -> {"commit_raised"}
    [] OTHER -> {}

\* C3: the steps a generation has executed are an initial part of body
\* acquisition, wrapping, upload, insert, response assembly (then the
\* commit), each at most once, and nothing follows a step that failed.
C3_StepsInOrderOnceNoneAfterFailure ==
  \A r \in Reqs :
    IsPost(r) =>
      /\ Len(llm[r]) <= 1
      /\ \E n \in 0..Len(Pipeline(r)) :
           \/ trace[r] = SubSeq(Pipeline(r), 1, n)
           \/ /\ n >= 1
              /\ \E f \in FailuresOf(Pipeline(r)[n]) :
                   trace[r] = SubSeq(Pipeline(r), 1, n) \o <<f>>
              /\ pc[r] = "done"

\* One generation ran every step and another stopped at its failed upload.
C3_Witness ==
  \E r, q \in Reqs :
    /\ trace[r] = <<"llm", "wrap", "put", "insert", "respond", "commit">>
    /\ trace[q] = <<"body", "wrap", "put", "put_raised">>

\* Whether a text is empty or whitespace only.
Blank(s) == \A i \in 1..Len(s) : s[i] \in Whitespace

\* C4: in raw mode, when the completion call raises, or the cleaned content
\* is empty or whitespace only (a null content included), the request ends
\* with GPTFormattingError and neither put_object nor the insert is executed.
C4_FormattingFailureStopsPipeline ==
  \A r \in Reqs :
    \A i \in 1..Len(llm[r]) :
      LET o == llm[r][i].outcome
          text == IF o.content = None THEN <<>> ELSE o.content
      IN (o.raise \/ Blank(clean_gpt_artifacts(text))) =>
           /\ Data(r).content_mode = RAW
           /\ pc[r] = "done"
           /\ raised[r].cls = "GPTFormattingError"
           /\ ~Has(r, "put") /\ ~Has(r, "insert")
           /\ loc[r].article = NoRow
           /\ DOMAIN store = {} /\ db = {}

\* A raw request whose completion returned a null content has ended.
C4_Witness ==
  \E r \in Reqs :
    /\ Len(llm[r]) = 1
    /\ ~llm[r][1].outcome.raise /\ llm[r][1].outcome.content = None
    /\ pc[r] = "done"

\* The content field the request's mode requires is missing or empty.
ContentMissing(body) ==
  \/ body.content_mode = FORMATTED /\ body.html_content \in {None, <<>>}
  \/ body.content_mode = RAW /\ body.raw_text \in {None, <<>>}

\* C5: a request whose mode's content field is empty or missing fails in
\* the construction of HtmlGenerateSchema and never reaches generate_html:
\* no completion call, no upload, no insert, no session.
C5_MissingContentNeverReachesPipeline ==
  \A r \in Reqs :
    (IsPost(r) /\ ContentMissing(req[r].body)) =>
      /\ pc[r] = "done"
      /\ raised[r].cls = "RequestValidationError"
      /\ trace[r] = <<>> /\ llm[r] = <<>> /\ loc[r] = NoLoc
      /\ sess[r] = "none"
      /\ DOMAIN store = {} /\ db = {}

\* A raw request with an empty raw_text and no other fault was rejected.
C5_Witness ==
  \E r \in Reqs :
    /\ IsPost(r) /\ ~FieldErrors(req[r].body)
    /\ req[r].body.content_mode = RAW /\ req[r].body.raw_text = <<>>
    /\ pc[r] = "done"

\* Request r's body passed validation and reached generate_html.
Passed(r) == IsPost(r) /\ raised[r].cls /= "RequestValidationError"

\* C6 as stated: a request that passes validation has exactly one of
\* html_content and raw_text populated, the one of its mode.
C6_ExactlyOneContentField ==
  \A r \in Reqs :
    Passed(r) =>
      /\ req[r].body.content_mode = FORMATTED =>
           Truthy(req[r].body.html_content) /\ req[r].body.raw_text = None
      /\ req[r].body.content_mode = RAW =>
           Truthy(req[r].body.raw_text) /\ req[r].body.html_content = None

\* C6 amended: a request that passes validation has the content field of its
\* mode populated (non-empty); the other field is not checked and not read:
\* the body is html_content in formatted mode, and the user message of the
\* completion call is raw_text in raw mode.
C6_ModeFieldPopulated ==
  \A r \in Reqs :
    Passed(r) =>
      /\ req[r].body.content_mode \in ContentModeEnum
      /\ req[r].body.content_mode = FORMATTED =>
           /\ Truthy(req[r].body.html_content)
           /\ llm[r] = <<>>
           /\ Has(r, "body") => loc[r].html_body = req[r].body.html_content
      /\ req[r].body.content_mode = RAW =>
           /\ Truthy(req[r].body.raw_text)
           /\ ~Has(r, "body")
           /\ \A i \in 1..Len(llm[r]) :
                llm[r][i].messages[2].content = req[r].body.raw_text

\* A formatted request that also carries a raw_text was served with 200.
C6_Witness ==
  \E r \in Reqs :
    /\ Passed(r) /\ req[r].body.content_mode = FORMATTED
    /\ Truthy(req[r].body.html_content) /\ Truthy(req[r].body.raw_text)
    /\ pc[r] = "done" /\ resp[r].status = 200

\* C7 as stated: a POST whose body fails validation (title missing,
\* article_type or content_mode unknown, the mode's content field missing or
\* empty) is answered with status 400.
C7_ValidationFailureIs400 ==
  \A r \in Reqs :
    (IsPost(r) /\ pc[r] = "done"
       /\ (FieldErrors(req[r].body) \/ ContentMissing(req[r].body))) =>
      resp[r].status = 400

\* The status the claim gives each error code.
C8_StatusOf(code) ==
  IF code = "NOT_FOUND" THEN 404
  ELSE IF code = "VALIDATION_ERROR" THEN 400
  ELSE IF code = "LIMIT_EXCEEDED" THEN 429
  ELSE IF code = "EXTERNAL_SERVICE_ERROR" THEN 502
  ELSE 500

\* C8: a failed completion step or upload step is answered with status 502
\* and the body {error: {code, message}} with code EXTERNAL_SERVICE_ERROR;
\* app_exception_handler gives every AppException the status of its code.
C8_ExternalFailuresAre502 ==
  /\ \A r \in Reqs :
       (Has(r, "llm_raised") \/ Has(r, "llm_empty") \/ Has(r, "put_raised")) =>
         /\ resp[r].status = 502
         /\ DOMAIN resp[r].body = {"error"}
         /\ DOMAIN resp[r].body.error = {"code", "message"}
         /\ resp[r].body.error.code = "EXTERNAL_SERVICE_ERROR"
         /\ resp[r].body.error.message = raised[r].message
  /\ \A code \in {"NOT_FOUND", "VALIDATION_ERROR", "LIMIT_EXCEEDED",
                  "EXTERNAL_SERVICE_ERROR", "UNKNOWN_ERROR", "CONFLICT"} :
       app_exception_handler(AppException("AppException", <<"m">>, code))
         = [status |-> C8_StatusOf(code),
            body |-> [error |-> [code |-> code, message |-> <<"m">>]]]
  /\ app_exception_handler(ArticleNotFoundError(1)).status = 404
  /\ app_exception_handler(ValidationError(<<"m">>)).status = 400
  /\ app_exception_handler(LimitExceededError("articles", 1)).status = 429

\* A request whose upload raised was answered with 502.
C8_Witness ==
  \E r \in Reqs : Has(r, "put_raised") /\ resp[r].status = 502

\* C9 as stated: a failed metadata insert ends the generation with a
\* PersistenceError, answered with a structured error {error: {code,
\* message}} of status 502 or 500, and no success descriptor.
C9_InsertFailureIsStructuredError ==
  \A r \in Reqs :
    Has(r, "insert_raised") =>
      /\ raised[r].cls = "PersistenceError"
      /\ resp[r].status \in {500, 502}
      /\ DOMAIN resp[r].body = {"error"}

\* Request r has ended, its upload succeeded, and its insert or its commit
\* raised.
FailedAfterUpload(r) ==
  /\ IsPost(r) /\ pc[r] = "done"
  /\ Has(r, "put") /\ ~Has(r, "put_raised")
  /\ Has(r, "insert_raised") \/ Has(r, "commit_raised")

\* C10: no object is ever removed from the store; after a failed insert or
\* commit that follows a successful upload the artifact is stored under its
\* key and no committed row references that key; a failed insert or commit
\* is the only way a finished generation leaves its artifact without a
\* committed row.
C10_FailedInsertLeavesOrphan ==
  /\ \A r \in Reqs :
       (Has(r, "put") /\ ~Has(r, "put_raised")) => loc[r].s3_key \in DOMAIN store
  /\ \A r \in Reqs :
       FailedAfterUpload(r) =>
         /\ loc[r].s3_key \in DOMAIN store
         /\ \A row \in db : row.s3_key /= loc[r].s3_key
  /\ \A r \in Reqs :
       (IsPost(r) /\ pc[r] = "done" /\ Has(r, "put") /\ ~Has(r, "put_raised")
          /\ \A row \in db : row.s3_key /= loc[r].s3_key) =>
         Has(r, "insert_raised") \/ Has(r, "commit_raised")

\* An orphan: a generation ended on a failed insert, its artifact is stored
\* and no committed row references the key.
C10_Witness ==
  \E r \in Reqs :
    /\ FailedAfterUpload(r) /\ Has(r, "insert_raised")
    /\ loc[r].s3_key \in DOMAIN store
    /\ \A row \in db : row.s3_key /= loc[r].s3_key
    /\ \A q \in Reqs : pc[q] \in {"idle", "done"}

\* Request g's lookup runs in this step and its SELECT does not raise.
Selects(g) ==
  /\ pc[g] = "lookup" /\ pc'[g] = "done"
  /\ trace'[g][Len(trace'[g])] = "select"

\* C11 as stated: once generate_html has returned the descriptor of a
\* generation, every get_article for the descriptor's id that runs afterwards
\* finds a record, and the lookup is answered with the descriptor's
\* public_url, article_type, format_type and created_at.
C11_RoundTrip ==
  [][\A g, p \in Reqs :
       (Selects(g) /\ IsPost(p) /\ Has(p, "respond")
          /\ req[g].article_id = loc[p].article.id) =>
         /\ resp'[g].status = 200
         /\ resp'[g].body = ArticleResponseSchema(loc[p].article)]_vars

\* Request r's put_object has returned without raising.
Uploaded(r) == Has(r, "put") /\ ~Has(r, "put_raised")

\* C12: any two generations, concurrent or not and with identical input or
\* not, have distinct s3_keys and write to distinct keys of the bucket; the
\* rows of any two have distinct ids and distinct s3_keys; s3_key and id are
\* unique among the committed rows; and the object under a generation's key
\* is the one that generation wrote.
C12_DistinctKeysAndRecords ==
  /\ \A r, q \in Reqs :
       (r /= q /\ Uploaded(r) /\ Uploaded(q)) => loc[r].s3_key /= loc[q].s3_key
  /\ \A r, q \in Reqs :
       (r /= q /\ loc[r].article /= NoRow /\ loc[q].article /= NoRow) =>
         /\ loc[r].article.id /= loc[q].article.id
         /\ loc[r].article.s3_key /= loc[q].article.s3_key
  /\ \A row, other \in db :
       (row.s3_key = other.s3_key \/ row.id = other.id) => row = other
  /\ \A r \in Reqs :
       Uploaded(r) =>
         /\ loc[r].s3_key \in DOMAIN store
         /\ store[loc[r].s3_key].Body = EncodeUtf8(loc[r].full_html)

\* Two generations with identical input have both committed their rows.
C12_Witness ==
  \E r, q \in Reqs :
    /\ r /= q /\ IsPost(r) /\ req[r] = req[q]
    /\ loc[r].article \in db /\ loc[q].article \in db
    /\ resp[r].status = 200 /\ resp[q].status = 200

\* C13: a lookup changes neither the committed rows, the id sequence nor
\* the bucket; when no committed row has the requested id, get_article
\* returns no record and the request ends with ArticleNotFoundError,
\* answered with status 404 and error code NOT_FOUND.
C13_MissingIdIs404AndLookupReadOnly ==
  [][\A g \in Reqs :
       (pc[g] = "lookup" /\ pc'[g] = "done") =>
         /\ db' = db /\ store' = store /\ nextId' = nextId
         /\ (Selects(g) /\ \A row \in db : row.id /= req[g].article_id) =>
              /\ raised'[g].cls = "ArticleNotFoundError"
              /\ resp'[g].status = 404
              /\ resp'[g].body.error.code = "NOT_FOUND"]_vars

\* A lookup of an id no committed row has was answered with 404 while
\* another id is committed.
C13_Witness ==
  \E g \in Reqs :
    /\ req[g].kind = "get" /\ pc[g] = "done"
    /\ resp[g].status = 404 /\ db /= {}
    /\ \A row \in db : row.id /= req[g].article_id

\* The object C14 expects under the key of a formatted request with this
\* body: base.html rendered with the body's title, its html_content and its
\* lang ("ru" when absent), encoded as UTF-8 and stored as text/html.
C14_Object(body) ==
  [Body |-> [encoding |-> "utf-8",
             text |-> [template |-> "base.html", title |-> body.title,
                       body_content |-> body.html_content,
                       lang |-> IF body.lang = None THEN <<"r", "u">>
                                ELSE body.lang]],
   ContentType |-> "text/html; charset=utf-8"]

\* C14: for a request with content_mode = formatted and a non-empty
\* html_content no completion call is made, the body is html_content
\* unchanged, and the object stored under the request's key is the UTF-8
\* encoding of the document wrapped from title, html_content and lang.
C14_FormattedBodyStoredAsWrapped ==
  \A r \in Reqs :
    (IsPost(r) /\ req[r].body.content_mode = FORMATTED
       /\ Truthy(req[r].body.html_content) /\ Passed(r)) =>
      /\ llm[r] = <<>> /\ ~Has(r, "llm")
      /\ pc[r] /= "acquire" =>
           /\ Has(r, "body")
           /\ loc[r].html_body = req[r].body.html_content
      /\ Uploaded(r) =>
           /\ loc[r].s3_key \in DOMAIN store
           /\ store[loc[r].s3_key] = C14_Object(req[r].body)

\* A formatted request with an English lang was stored and answered.
C14_Witness ==
  \E r \in Reqs :
    /\ IsPost(r) /\ req[r].body.content_mode = FORMATTED
    /\ req[r].body.lang = <<"e", "n">>
    /\ Uploaded(r) /\ resp[r].status = 200

\* C15: the key a generation draws is {formatType}/{articleType}/{token}.html
\* with the request's article_type and a token no other generation drew, so
\* it is determined by the article type and the token alone; the row of the
\* generation carries that key, the key's first segment is the row's
\* format_type and its second segment the row's article_type.
C15_KeyScheme ==
  \A r \in Reqs :
    loc[r].s3_key /= <<>> =>
      /\ \E tok \in Tokens :
           /\ loc[r].s3_key =
                <<"html", "/", req[r].body.article_type, "/", tok, ".html">>
           /\ \A q \in Reqs \ {r} :
                loc[q].s3_key /= <<>> => loc[q].s3_key[5] /= tok
      /\ loc[r].article /= NoRow =>
           /\ loc[r].article.s3_key = loc[r].s3_key
           /\ loc[r].article.format_type = loc[r].s3_key[1]
           /\ loc[r].article.article_type = loc[r].s3_key[3]
           /\ loc[r].article.article_type = req[r].body.article_type

\* Two committed generations of the same article type that differ in title,
\* lang and source_entity_id: their keys differ in the token only.
C15_Witness ==
  \E r, q \in Reqs :
    /\ loc[r].article \in db /\ loc[q].article \in db
    /\ req[r].body.article_type = req[q].body.article_type
    /\ req[r].body.title /= req[q].body.title
    /\ req[r].body.lang /= req[q].body.lang
    /\ req[r].body.source_entity_id /= req[q].body.source_entity_id
    /\ \A i \in {1, 2, 3, 4, 6} : loc[r].s3_key[i] = loc[q].s3_key[i]
    /\ loc[r].s3_key[5] /= loc[q].s3_key[5]

\* The URL C16 expects for a key: the configured public base, a slash and
\* the key, or without a public base the endpoint, the bucket name and the
\* key (a base or endpoint is taken without its trailing slashes).
C16_Url(cfg, key) ==
  IF cfg.S3_PUBLIC_URL /= <<>>
  THEN RStripSlash(cfg.S3_PUBLIC_URL) \o <<"/">> \o key
  ELSE RStripSlash(cfg.S3_ENDPOINT) \o <<"/">> \o <<cfg.S3_BUCKET_NAME>>
         \o <<"/">> \o key

\* C16: get_public_url is a function of the configuration and the key, with
\* the value above; the public_url of every row generate_html creates is
\* get_public_url of the row's s3_key, and the response descriptor carries
\* the same public_url.
C16_PublicUrlDerivedFromKey ==
  /\ \A cfg \in AllConfigs, tok \in Tokens, t \in ArticleTypeEnum :
       get_public_url(cfg, S3Key(t, tok)) = C16_Url(cfg, S3Key(t, tok))
  /\ \A r \in Reqs :
       loc[r].article /= NoRow =>
         /\ loc[r].article.public_url = C16_Url(configs, loc[r].article.s3_key)
         /\ loc[r].article.public_url
              = get_public_url(configs, loc[r].article.s3_key)
         /\ (IsPost(r) /\ resp[r].status = 200) =>
              resp[r].body.public_url = loc[r].article.public_url

\* A generation under a configured public base URL was answered with the
\* base, a slash and its key.
C16_Witness ==
  \E r \in Reqs :
    /\ IsPost(r) /\ resp[r].status = 200
    /\ configs.S3_PUBLIC_URL = <<"c", "d", "n", "/">>
    /\ resp[r].body.public_url = <<"c", "d", "n", "/">> \o loc[r].s3_key

\* C17: every delete_file call returns: True when delete_object returned,
\* False when create_client or delete_object raised; and no step of a
\* generation or of a lookup calls delete_file or removes an object.
C17_DeleteFileNeverPropagates ==
  [][/\ deleted' /= NoDelete =>
          /\ deleted'.result.kind = "return"
          /\ deleted'.result.value = (deleted'.outcome = "ok")
     /\ (\E r \in Reqs : pc'[r] /= pc[r]) =>
          /\ deleted' = deleted
          /\ \A k \in DOMAIN store : k \in DOMAIN store']_vars

\* delete_file returned False for a stored object after delete_object
\* raised, and the object is still stored.
C17_Witness ==
  /\ deleted /= NoDelete /\ deleted.outcome = "delete_raises"
  /\ deleted.result = [kind |-> "return", value |-> FALSE]
  /\ deleted.key \in DOMAIN store

\* C18 as stated: ensure_bucket first checks that the bucket exists; when it
\* is absent and the call succeeds, the bucket has been created and carries
\* the public-read policy; when it is present, neither create_bucket nor
\* put_bucket_policy is issued; and a call that follows a successful call
\* leaves the bucket and its objects as they were.
C18_EnsureBucketIdempotent ==
  [][ensure'.runs = ensure.runs + 1 =>
       /\ ensure'.calls[1] = "head_bucket"
       /\ bucket.exists => ensure'.calls = <<"head_bucket">>
       /\ (~bucket.exists /\ ~ensure'.raised) =>
            /\ ensure'.calls
                 = <<"head_bucket", "create_bucket", "put_bucket_policy">>
            /\ bucket'.exists
            /\ bucket'.policy = PublicReadPolicy(configs.S3_BUCKET_NAME)
       /\ (ensure.runs >= 1 /\ ~ensure.raised) =>
            bucket' = bucket /\ store' = store]_vars

\* C19: ensure_bucket runs once, when the process starts: a request is
\* received only after it has returned without raising, and no request runs
\* it again; when one of its calls raises, the exception leaves the startup
\* hook, the process does not serve any request, and no call is issued a
\* second time.
C19_EnsureBucketOnceAtStartup ==
  /\ ensure.runs <= 1
  /\ proc = "starting" => ensure = NoEnsure
  /\ \A r \in Reqs :
       pc[r] /= "idle" =>
         proc = "serving" /\ ensure.runs = 1 /\ ~ensure.raised
  /\ ensure.raised =>
       /\ proc = "failed"
       /\ \A r \in Reqs : pc[r] = "idle" /\ req[r] = NoReq
  /\ \A i, j \in 1..Len(ensure.calls) :
       ensure.calls[i] = ensure.calls[j] => i = j

\* put_bucket_policy raised and the process did not start.
C19_Witness ==
  /\ proc = "failed" /\ ensure.raised
  /\ ensure.calls = <<"head_bucket", "create_bucket", "put_bucket_policy">>

\* C20 as stated: the response to a failed generation does not depend on the
\* text of the collaborator's exception: two generations with the same
\* request and the same key that both ended on a raising completion call, or
\* both on a raising put_object, were answered with the same body.
C20_ResponseIndependentOfExceptionText ==
  \A r, q \in Reqs :
    (/\ IsPost(r) /\ IsPost(q) /\ req[r] = req[q]
     /\ loc[r].s3_key = loc[q].s3_key
     /\ \/ Has(r, "llm_raised") /\ Has(q, "llm_raised")
        \/ Has(r, "put_raised") /\ Has(q, "put_raised")) =>
      resp[r].body = resp[q].body

\* ---------------------------------------------------------------- C21

\* The text has a fence delimiter (three backticks in a row) somewhere.
C21_HasFence(s) ==
  \E i \in 1..Len(s) : i + 2 <= Len(s) /\ s[i] = BT /\ s[i+1] = BT /\ s[i+2] = BT

\* The lines that have content, each without its surrounding whitespace.
C21_ContentLines(lines) ==
  SelectSeq([i \in 1..Len(lines) |-> Strip(lines[i])], LAMBDA l : l /= <<>>)

\* The response once its fence delimiters are removed, as lines.
C21_Lines(response) ==
  SplitLines(SubFence(SubFence(response, 1, FenceHtml, TRUE), 1, Fence, FALSE))

\* The positions of the lines that, trimmed, start with "<".
C21_HtmlLines(lines) ==
  {i \in 1..Len(lines) : Strip(lines[i]) /= <<>> /\ Head(Strip(lines[i])) = "<"}

C21_First(lines) ==
  CHOOSE i \in C21_HtmlLines(lines) : \A j \in C21_HtmlLines(lines) : i <= j

C21_Cleaned(response, out) ==
  LET lines == C21_Lines(response)
  IN /\ ~C21_HasFence(out)
     /\ out = Strip(out)
     /\ IF C21_HtmlLines(lines) = {}
        THEN out = <<>>
        ELSE /\ out /= <<>> /\ Head(out) = "<"
             /\ C21_ContentLines(SplitLines(out))
                  = C21_ContentLines(SubSeq(lines, C21_First(lines), Len(lines)))

RECURSIVE C22_EmptyRun(_, _)
C22_EmptyRun(lines, i) ==
  IF i <= Len(lines) /\ lines[i] = <<>> THEN 1 + C22_EmptyRun(lines, i + 1)
  ELSE 0

\* The lines with every run of k or more empty lines replaced by one empty
\* line, and every shorter run kept.
RECURSIVE C22_Squeeze(_, _, _)
C22_Squeeze(lines, i, k) ==
  IF i > Len(lines) THEN <<>>
  ELSE LET n == C22_EmptyRun(lines, i)
       IN IF n >= k THEN << <<>> >> \o C22_Squeeze(lines, i + n, k)
          ELSE IF n > 0
               THEN SubSeq(lines, i, i + n - 1) \o C22_Squeeze(lines, i + n, k)
               ELSE <<lines[i]>> \o C22_Squeeze(lines, i + 1, k)

\* The lines _clean_gpt_artifacts retains of a response.
C22_Retained(response) == DropPreamble(C21_Lines(response), FALSE)

\* The cleaned text of every answered completion call is the retained text
\* with the runs of k or more empty lines collapsed, trimmed.
C22_CollapsedFrom(k) ==
  \A r \in Reqs : \A i \in 1..Len(llm[r]) :
    LET o == llm[r][i].outcome
        out == IF Has(r, "llm_empty") THEN <<>> ELSE loc[r].html_body
    IN ~o.raise =>
         out = Strip(JoinLines(
                 C22_Squeeze(C22_Retained(ContentOrEmpty(o.content)), 1, k)))

\* C22 as stated: runs of 3 or more blank lines of the retained text are
\* collapsed to one blank line, runs of one or two blank lines are retained.
C22_ThreeBlankLinesCollapsed == C22_CollapsedFrom(3)

\* C22 amended: runs of 2 or more empty lines (3 or more newlines) of the
\* retained text are collapsed to one empty line, a single empty line is
\* retained, and a line of whitespace is not an empty line.
C22_TwoEmptyLinesCollapsed == C22_CollapsedFrom(2)

\* A response with two empty lines between two content lines has been
\* cleaned to a text with one empty line between them.
C22_Witness ==
  \E r \in Reqs :
    /\ Len(llm[r]) = 1
    /\ llm[r][1].outcome.content = <<"<", "p", ">", NL, NL, NL, "x">>
    /\ loc[r].html_body = <<"<", "p", ">", NL, NL, "x">>

\* ---------------------------------------------------------------- C23

\* Every completion call of a request carries two messages, a system
\* instruction and the raw_text as the user message; the instruction is the
\* formatting_rules when Given(formatting_rules), the default otherwise,
\* extended with the English sentence exactly when lang is "en".
C23_CalledWith(Given(_)) ==
  \A r \in Reqs : \A i \in 1..Len(llm[r]) :
    LET body == req[r].body
        instruction == IF Given(body.formatting_rules)
                       THEN body.formatting_rules
                       ELSE DEFAULT_SYSTEM_PROMPT
        messages == llm[r][i].messages
    IN /\ body.content_mode = RAW
       /\ Len(llm[r]) = 1
       /\ Len(messages) = 2
       /\ messages[1].role = "system"
       /\ messages[2] = [role |-> "user", content |-> body.raw_text]
       /\ messages[1].content =
            IF body.lang = <<"e", "n">> THEN instruction \o EnglishSuffix
            ELSE instruction

C24_RowOf(r) ==
  loc[r].article /= NoRow /\ \E row \in db : row.id = loc[r].article.id

\* The session of a finished request is committed exactly when nothing was
\* raised, rolled back otherwise; the inserted row is committed only with
\* that commit and absent after a rollback.
C24_SessionFollowsOutcome ==
  \A r \in Reqs :
    /\ sess[r] = "committed" =>
         pc[r] = "done" /\ raised[r] = NoExc /\ resp[r].status = 200
    /\ sess[r] = "rolledback" =>
         pc[r] = "done" /\ raised[r] /= NoExc /\ ~C24_RowOf(r)
    /\ (pc[r] = "done" /\ sess[r] /= "none") =>
         sess[r] \in {"committed", "rolledback"}
    /\ C24_RowOf(r) => sess[r] = "committed"

\* Every success descriptor a client holds names a committed row.
C24_DescriptorIsCommitted ==
  \A r \in Reqs :
    (IsPost(r) /\ pc[r] = "done" /\ resp[r].status = 200) =>
      \E row \in db : row.id = resp[r].body.id

\* C24 as stated: a get_session session is committed exactly when the
\* handler finishes without raising and rolled back, with the exception
\* re-raised, when the handler or the commit raises; an inserted row is
\* durable only after that commit, every success descriptor returned to a
\* client refers to a committed row, and after a rollback no row of the
\* request exists.
C24_CommitOnSuccessRollbackOnRaise ==
  C24_SessionFollowsOutcome /\ C24_DescriptorIsCommitted

\* ---------------------------------------------------------------- C25

\* The last ensure_bucket returned without error.
C25_Returned == ensure.runs >= 1 /\ ~ensure.raised

\* After a return without error the bucket exists with the public-read
\* policy.
C25_PublicAfterReturn ==
  C25_Returned =>
    /\ bucket.exists
    /\ bucket.policy = PublicReadPolicy(configs.S3_BUCKET_NAME)

\* create_bucket is attempted only on a bucket that is absent.
C25_CreateOnlyWhenAbsent ==
  (\E i \in 1..Len(ensure.calls) : ensure.calls[i] = "create_bucket") =>
    ~ensure.existed

\* C25 as stated: after any sequence of startups, failed and restarted ones
\* included, whenever ensure_bucket returns without error the bucket exists
\* and carries the public-read GetObject policy, and create_bucket is
\* attempted only when the bucket is absent, not when head_bucket fails for
\* another reason.
C25_EnsureBucketLeavesPublicBucket ==
  C25_PublicAfterReturn /\ C25_CreateOnlyWhenAbsent

====
